---- MODULE Spec2Model ----
(***************************************************************************)
(* Model of the PDF highlight viewer (src/src/App.jsx): the page text      *)
(* index built while the document loads, the phrase locator (findPhrase,   *)
(* findMatchingTextBoxes, calculateBoundingRect) and the single highlight. *)
(*                                                                         *)
(* Strings are sequences of one-character strings, so that substring,      *)
(* indexOf, join and toLowerCase are computed character by character.      *)
(* Coordinates are integers.                                               *)
(***************************************************************************)
EXTENDS Integers, Sequences, FiniteSets, TLC

VARIABLES
    state,          \* the component state (useState, App.jsx:60-66)
    pageTextBoxes,  \* pageTextBoxesRef.current: page number -> text boxes
    textContent,    \* history: the items getTextContent resolved with, by page
    pageContainers, \* the .page-container elements of the viewer, in DOM order
    highlights,     \* the .highlight elements of the document, in DOM order
    loader,         \* position of loadAndRenderPDF / renderPDFPages
    lastClick,      \* history: what the last reference activation did
    scan            \* one run of findMatchingTextBoxes, iteration by iteration

vars == <<state, pageTextBoxes, textContent, pageContainers, highlights, loader, lastClick, scan>>

appVars == <<state, pageTextBoxes, textContent, pageContainers, highlights, loader, lastClick>>

----------------------------------------------------------------------------
(* Bounds of the model.                                                    *)

\* Largest number of pages a loaded document has.
MaxPages == 3

\* Largest number of text boxes on the page scanned by findMatchingTextBoxes.
MaxBoxes == 4

----------------------------------------------------------------------------
(* JavaScript values.                                                      *)

\* null, for the result of findPhrase, state.pdfDoc and state.currentHighlight.
null == [isNull |-> TRUE]

\* state.error when no error is set.
NoError == "null"

Max(a, b) == IF a >= b THEN a ELSE b

\* Numbers extended with +Infinity and -Infinity (sign 1, -1; 0 for finite).
Finite(n) == [sign |-> 0, n |-> n]

PosInfinity == [sign |-> 1, n |-> 0]

NegInfinity == [sign |-> -1, n |-> 0]

ExtLeq(a, b) ==
    IF a.sign # b.sign THEN a.sign < b.sign
    ELSE IF a.sign = 0 THEN a.n <= b.n ELSE TRUE

MathMin(a, b) == IF ExtLeq(a, b) THEN a ELSE b

MathMax(a, b) == IF ExtLeq(a, b) THEN b ELSE a

----------------------------------------------------------------------------
(* String operations.                                                      *)

LowerChar(c) ==
    CASE c = "A" -> "a"
      [] c = "B" -> "b"
      [] c = "C" -> "c"
      [] c = "X" -> "x"
      [] OTHER -> c

toLowerCase(s) == [k \in 1..Len(s) |-> LowerChar(s[k])]

\* s.substring(n): s without its first n characters.
substring(s, n) == IF n >= Len(s) THEN <<>> ELSE SubSeq(s, n + 1, Len(s))

\* text.indexOf(pat): the 0-based position of the first occurrence, or -1.
indexOf(text, pat) ==
    LET starts == {k \in 0..(Len(text) - Len(pat)) :
                      SubSeq(text, k + 1, k + Len(pat)) = pat}
    IN  IF starts = {} THEN -1
        ELSE CHOOSE k \in starts : \A m \in starts : k <= m

includes(text, pat) == indexOf(text, pat) # -1

RECURSIVE join(_, _)
\* strs.join(sep)
join(strs, sep) ==
    IF strs = <<>> THEN <<>>
    ELSE IF Len(strs) = 1 THEN strs[1]
    ELSE strs[1] \o sep \o join(Tail(strs), sep)

----------------------------------------------------------------------------
(* The phrase configuration.  SEARCH_PHRASES is the application's static   *)
(* configuration surface (the README documents adding entries, with        *)
(* pageHint optional).  The entries keep their shape (an ordered list of   *)
(* variations and a page hint) over a four-letter alphabet, with page      *)
(* hints inside the modelled documents: entry 1 lists a phrase with a      *)
(* space before a shorter fallback, entry 2 is written with a capital,     *)
(* entry 3 has no pageHint (0 stands for the missing, falsy, property).    *)

SEARCH_PHRASES ==
    (1 :> [variations |-> << <<"a", " ", "b">>, <<"b">> >>, pageHint |-> 2]) @@
    (2 :> [variations |-> << <<"A", "b">> >>,               pageHint |-> 3]) @@
    (3 :> [variations |-> << <<"a", " ", "b">>, <<"c">> >>, pageHint |-> 0])

\* The reference numbers a reference activation may carry: the configured
\* ones and one with no entry in SEARCH_PHRASES.
ReferenceNumbers == DOMAIN SEARCH_PHRASES \cup {99}

----------------------------------------------------------------------------
(* Text extraction.                                                        *)

\* One item of page.getTextContent(): its string, the transformed position
\* (x, y), the font height and the width measureText gives the string.
Item(str, x, y, fontHeight, width) ==
    [str |-> str, x |-> x, y |-> y, fontHeight |-> fontHeight, width |-> width]

\* The text box extractTextContent stores for an item.
textBox(item, pageNum) ==
    [str        |-> item.str,
     left       |-> item.x,
     top        |-> item.y - item.fontHeight,
     width      |-> item.width,
     height     |-> item.fontHeight,
     pageNumber |-> pageNum]

\* The boxes pushed for a page, in the order of textContent.items.
extractTextContent(items, pageNum) ==
    [k \in 1..Len(items) |-> textBox(items[k], pageNum)]

\* The text contents a page of the document may have.
PageContents ==
    { <<>>,
      << Item(<<"a">>, 1, 5, 2, 1), Item(<<"b">>, 3, 5, 2, 1) >>,
      << Item(<<"x", "A", "B">>, 2, 4, 3, 3) >>,
      << Item(<<"c">>, 0, 3, 1, 1), Item(<<"a", " ", "b">>, 1, 6, 2, 4) >>,
      << Item(<<"x">>, 4, 4, 1, 1) >>,
      << Item(<<"a">>, 2, 2, 2, 1), Item(<<"C">>, 5, 7, 3, 2) >> }

----------------------------------------------------------------------------
(* The phrase locator.                                                     *)

\* The rectangle calculateBoundingRect returns for no boxes.
ZeroRect == [left |-> 0, top |-> 0, width |-> 0, height |-> 0]

RECURSIVE BoundsOf(_, _, _)
\* The forEach of calculateBoundingRect from box k on; acc holds minLeft,
\* minTop, maxRight and maxBottom.
BoundsOf(boxes, k, acc) ==
    IF k > Len(boxes) THEN acc
    ELSE BoundsOf(boxes, k + 1,
            [minLeft   |-> MathMin(acc.minLeft, Finite(boxes[k].left)),
             minTop    |-> MathMin(acc.minTop, Finite(boxes[k].top)),
             maxRight  |-> MathMax(acc.maxRight,
                                   Finite(boxes[k].left + boxes[k].width)),
             maxBottom |-> MathMax(acc.maxBottom,
                                   Finite(boxes[k].top + boxes[k].height))])

\* calculateBoundingRect with the right and bottom edges returned as the width
\* and height.
calculateBoundingRect_EdgesAsSize(boxes) ==
    IF Len(boxes) = 0 THEN ZeroRect
    ELSE LET b == BoundsOf(boxes, 1,
                     [minLeft |-> PosInfinity, minTop |-> PosInfinity,
                      maxRight |-> NegInfinity, maxBottom |-> NegInfinity])
         IN  [left   |-> b.minLeft.n,
              top    |-> b.minTop.n,
              width  |-> b.maxRight.n,
              height |-> b.maxBottom.n]

calculateBoundingRect(boxes) ==
    IF Len(boxes) = 0 THEN ZeroRect
    ELSE LET b == BoundsOf(boxes, 1,
                     [minLeft |-> PosInfinity, minTop |-> PosInfinity,
                      maxRight |-> NegInfinity, maxBottom |-> NegInfinity])
         IN  [left   |-> b.minLeft.n,
              top    |-> b.minTop.n,
              width  |-> b.maxRight.n - b.minLeft.n,
              height |-> b.maxBottom.n - b.minTop.n]

\* One iteration of the loop of findMatchingTextBoxes, for the 0-based index i:
\* the text and boxes after it, and whether it returned currentBoxes.
LoopBody(boxes, searchText, i, currentText, currentBoxes) ==
    LET text1  == currentText \o toLowerCase(boxes[i + 1].str)
        boxes1 == Append(currentBoxes, boxes[i + 1])
    IN  IF includes(text1, searchText)
        THEN [returned |-> TRUE, currentText |-> text1, currentBoxes |-> boxes1]
        ELSE IF Len(text1) > Len(searchText) * 3
        THEN [returned     |-> FALSE,
              currentText  |-> substring(text1, Len(boxes[Max(0, i - 10) + 1].str)),
              currentBoxes |-> Tail(boxes1)]
        ELSE [returned |-> FALSE, currentText |-> text1, currentBoxes |-> boxes1]

RECURSIVE ScanFrom(_, _, _, _, _)
\* The loop of findMatchingTextBoxes from index i on, and its final return of
\* the (empty) matchingBoxes.
ScanFrom(boxes, searchText, i, currentText, currentBoxes) ==
    IF i >= Len(boxes) THEN <<>>
    ELSE LET r == LoopBody(boxes, searchText, i, currentText, currentBoxes)
         IN  IF r.returned THEN r.currentBoxes
             ELSE ScanFrom(boxes, searchText, i + 1, r.currentText, r.currentBoxes)

findMatchingTextBoxes(boxes, searchText) == ScanFrom(boxes, searchText, 0, <<>>, <<>>)

\* The page text built without lowercasing it.
pageSearchString_CaseKept(boxes) ==
    join([k \in 1..Len(boxes) |-> boxes[k].str], <<" ">>)

\* The page text findPhrase builds for pattern matching.
pageSearchString(boxes) ==
    toLowerCase(join([k \in 1..Len(boxes) |-> boxes[k].str], <<" ">>))

RECURSIVE SortedSeq(_)
\* The elements of a finite set of integers in ascending order.
SortedSeq(S) ==
    IF S = {} THEN <<>>
    ELSE LET m == CHOOSE x \in S : \A y \in S : x <= y
         IN  <<m>> \o SortedSeq(S \ {m})

\* The keys of pages in descending order.
ObjectKeys_Descending(pages) ==
    LET up == SortedSeq(DOMAIN pages)
    IN  [k \in 1..Len(up) |-> up[Len(up) + 1 - k]]

\* Object.keys(pages).map(p => parseInt(p)): integer keys come in ascending
\* numeric order.
ObjectKeys(pages) == SortedSeq(DOMAIN pages)

\* The candidate pages with the page hint ignored.
pagesToSearch_HintIgnored(config, pages) == SortedSeq(DOMAIN pages)

\* The candidate pages of findPhrase.
pagesToSearch(config, pages) ==
    IF config.pageHint # 0 THEN <<config.pageHint>> ELSE ObjectKeys(pages)

\* The loop over config.variations leaving the page at the first variation that
\* occurs in the page text, whether or not its run is empty.
TryVariations_StopAtFirstOccurrence(boxes, pageNum, variations, j) ==
    LET occurring == {k \in j..Len(variations) :
                         indexOf(pageSearchString(boxes), toLowerCase(variations[k])) # -1}
    IN  IF occurring = {} THEN null
        ELSE LET k == CHOOSE x \in occurring : \A y \in occurring : x <= y
                 matchingBoxes == findMatchingTextBoxes(boxes, toLowerCase(variations[k]))
             IN  IF Len(matchingBoxes) > 0
                 THEN [page |-> pageNum, rect |-> calculateBoundingRect(matchingBoxes)]
                 ELSE null

RECURSIVE TryVariations(_, _, _, _)
\* The loop over config.variations on one page, from variation j on: the
\* result that is returned, or null when the loop ends.
TryVariations(boxes, pageNum, variations, j) ==
    IF j > Len(variations) THEN null
    ELSE LET normalizedVariation == toLowerCase(variations[j])
             index == indexOf(pageSearchString(boxes), normalizedVariation)
             matchingBoxes == findMatchingTextBoxes(boxes, normalizedVariation)
         IN  IF index # -1 /\ Len(matchingBoxes) > 0
             THEN [page |-> pageNum, rect |-> calculateBoundingRect(matchingBoxes)]
             ELSE TryVariations(boxes, pageNum, variations, j + 1)

RECURSIVE SearchPages(_, _, _, _)
\* The loop over pagesToSearch from position k on.
SearchPages(pages, config, toSearch, k) ==
    IF k > Len(toSearch) THEN null
    ELSE LET pageNum == toSearch[k]
         IN  IF pageNum \notin DOMAIN pages \/ Len(pages[pageNum]) = 0
             THEN SearchPages(pages, config, toSearch, k + 1)
             ELSE LET r == TryVariations(pages[pageNum], pageNum, config.variations, 1)
                  IN  IF r # null THEN r
                      ELSE SearchPages(pages, config, toSearch, k + 1)

\* findPhrase falling back to the first configuration entry for a reference
\* number that has none.
findPhrase_FallbackConfig(referenceNumber, pages) ==
    LET config == IF referenceNumber \in DOMAIN SEARCH_PHRASES
                  THEN SEARCH_PHRASES[referenceNumber] ELSE SEARCH_PHRASES[1]
    IN  SearchPages(pages, config, pagesToSearch(config, pages), 1)

findPhrase(referenceNumber, pages) ==
    IF referenceNumber \notin DOMAIN SEARCH_PHRASES THEN null
    ELSE LET config == SEARCH_PHRASES[referenceNumber]
         IN  SearchPages(pages, config, pagesToSearch(config, pages), 1)

----------------------------------------------------------------------------
(* The highlight.                                                          *)

\* clearHighlights: every .highlight element is removed and the state's
\* currentHighlight is reset.  dom is [highlights, state].
clearHighlights(dom) ==
    [highlights |-> <<>>,
     state      |-> [dom.state EXCEPT !.currentHighlight = null]]

\* createHighlight without its call of clearHighlights.
createHighlight_NoClear(pageNumber, rect, dom, containers) ==
    IF \A k \in 1..Len(containers) : containers[k] # pageNumber
    THEN [ok |-> FALSE, highlights |-> dom.highlights, state |-> dom.state]
    ELSE [ok         |-> TRUE,
          highlights |-> Append(dom.highlights,
                                [pageNumber |-> pageNumber, rect |-> rect]),
          state      |-> [dom.state EXCEPT !.currentHighlight =
                                [pageNumber |-> pageNumber, rect |-> rect]]]

\* createHighlight(pageNumber, rect) on dom = [highlights, state], with the
\* page containers of the viewer: the value returned and the new dom.
createHighlight(pageNumber, rect, dom, containers) ==
    LET cleared == clearHighlights(dom)
    IN  IF \A k \in 1..Len(containers) : containers[k] # pageNumber
        THEN [ok |-> FALSE, highlights |-> cleared.highlights, state |-> cleared.state]
        ELSE [ok         |-> TRUE,
              highlights |-> Append(cleared.highlights,
                                    [pageNumber |-> pageNumber, rect |-> rect]),
              state      |-> [cleared.state EXCEPT !.currentHighlight =
                                    [pageNumber |-> pageNumber, rect |-> rect]]]

----------------------------------------------------------------------------
(* The application.                                                        *)

\* lastClick before any reference activation.
NoClick ==
    [referenceNumber |-> 0, searched |-> FALSE, found |-> null,
     created |-> FALSE, cleared |-> FALSE, prior |-> null, loading |-> FALSE,
     indexed |-> {}, numPages |-> 0]

\* scan while no run of findMatchingTextBoxes is followed.
ScanIdle ==
    [pc |-> "idle", boxes |-> <<>>, searchText |-> <<>>, i |-> 0,
     currentText |-> <<>>, currentBoxes |-> <<>>, matchingBoxes |-> <<>>,
     rect |-> ZeroRect]

\* The component state as mounted (useState).
InitialState ==
    [pdfjsLoaded |-> FALSE, pdfDoc |-> null, loading |-> TRUE,
     error |-> NoError, currentHighlight |-> null]

\* The loader before the script of the PDF library has loaded.
InitialLoader == [pc |-> "script", pageNum |-> 0, numPages |-> 0]

\* The component as mounted: the initial state, an empty index and viewer,
\* and the script of the PDF library requested.
AppInit ==
    /\ state = InitialState
    /\ pageTextBoxes = <<>>
    /\ textContent = <<>>
    /\ pageContainers = <<>>
    /\ highlights = <<>>
    /\ loader = InitialLoader
    /\ lastClick = NoClick

Init == AppInit /\ scan = ScanIdle

\* script.onload
ScriptLoaded ==
    /\ loader.pc = "script"
    /\ state' = [state EXCEPT !.pdfjsLoaded = TRUE]
    /\ loader' = [loader EXCEPT !.pc = "effect"]
    /\ UNCHANGED <<pageTextBoxes, textContent, pageContainers, highlights, lastClick, scan>>

\* script.onerror
ScriptError ==
    /\ loader.pc = "script"
    /\ state' = [state EXCEPT !.error = "Failed to load PDF.js library"]
    /\ loader' = [loader EXCEPT !.pc = "failed"]
    /\ UNCHANGED <<pageTextBoxes, textContent, pageContainers, highlights, lastClick, scan>>

\* loadAndRenderPDF up to its first await: the effect runs once pdfjsLoaded
\* is set; a missing window.pdfjsLib is thrown and caught.
LoadStart ==
    /\ loader.pc = "effect"
    /\ state.pdfjsLoaded
    /\ \E pdfjsLib \in BOOLEAN :
          IF pdfjsLib
          THEN /\ state' = [state EXCEPT !.loading = TRUE, !.error = NoError]
               /\ loader' = [loader EXCEPT !.pc = "getDocument"]
          ELSE /\ state' = [state EXCEPT !.loading = FALSE,
                                         !.error = "Failed to load PDF"]
               /\ loader' = [loader EXCEPT !.pc = "failed"]
    /\ UNCHANGED <<pageTextBoxes, textContent, pageContainers, highlights, lastClick, scan>>

\* The loop head of renderPDFPages for pageNum, with st the component state:
\* the next page is requested, or the loop ends and loadAndRenderPDF sets
\* loading to false.
LoopHead(pageNum, numPages, st) ==
    IF pageNum <= numPages
    THEN [loader |-> [pc |-> "getPage", pageNum |-> pageNum, numPages |-> numPages],
          state  |-> st]
    ELSE [loader |-> [pc |-> "done", pageNum |-> pageNum, numPages |-> numPages],
          state  |-> [st EXCEPT !.loading = FALSE]]

\* loadingTask.promise resolves with a document of numPages pages: the viewer
\* is emptied and renderPDFPages starts.  (The viewer element is mounted
\* whenever no error is set, so the early return on a missing viewer is not
\* taken.)
GetDocumentResolved ==
    /\ loader.pc = "getDocument"
    /\ \E numPages \in 0..MaxPages :
          LET next == LoopHead(1, numPages,
                               [state EXCEPT !.pdfDoc = [numPages |-> numPages]])
          IN  /\ loader' = next.loader
              /\ state' = next.state
    /\ pageContainers' = <<>>
    /\ highlights' = <<>>
    /\ UNCHANGED <<pageTextBoxes, textContent, lastClick, scan>>

\* doc.getPage(pageNum) resolves: the page container is appended to the viewer
\* and the page's render starts.
GetPageResolved ==
    /\ loader.pc = "getPage"
    /\ pageContainers' = Append(pageContainers, loader.pageNum)
    /\ loader' = [loader EXCEPT !.pc = "render"]
    /\ UNCHANGED <<state, pageTextBoxes, textContent, highlights, lastClick, scan>>

\* page.render(...).promise resolves and the loop goes on to the next page
\* without awaiting extractTextContent.
RenderResolved_ExtractionNotAwaited ==
    /\ loader.pc = "render"
    /\ LET next == LoopHead(loader.pageNum + 1, loader.numPages, state)
       IN  /\ loader' = next.loader
           /\ state' = next.state
    /\ UNCHANGED <<pageTextBoxes, textContent, pageContainers, highlights, lastClick, scan>>

\* page.render(...).promise resolves: extractTextContent asks for the text.
RenderResolved ==
    /\ loader.pc = "render"
    /\ loader' = [loader EXCEPT !.pc = "getTextContent"]
    /\ UNCHANGED <<state, pageTextBoxes, textContent, pageContainers, highlights, lastClick, scan>>

\* page.getTextContent() resolves: the page's boxes are stored and the loop of
\* renderPDFPages goes on.
GetTextContentResolved ==
    /\ loader.pc = "getTextContent"
    /\ \E items \in PageContents :
          /\ pageTextBoxes' = (loader.pageNum :> extractTextContent(items, loader.pageNum))
                                 @@ pageTextBoxes
          /\ textContent' = (loader.pageNum :> items) @@ textContent
    /\ LET next == LoopHead(loader.pageNum + 1, loader.numPages, state)
       IN  /\ loader' = next.loader
           /\ state' = next.state
    /\ UNCHANGED <<pageContainers, highlights, lastClick, scan>>

\* A promise awaited by loadAndRenderPDF rejects: its catch block.
AwaitRejected ==
    /\ loader.pc \in {"getDocument", "getPage", "render", "getTextContent"}
    /\ state' = [state EXCEPT !.error = "Failed to load PDF", !.loading = FALSE]
    /\ loader' = [loader EXCEPT !.pc = "failed"]
    /\ UNCHANGED <<pageTextBoxes, textContent, pageContainers, highlights, lastClick, scan>>

\* handleReferenceClick without its check of state.loading.
handleReferenceClick_NoLoadingCheck(referenceNumber) ==
    LET click == [referenceNumber |-> referenceNumber, searched |-> TRUE,
                  found |-> null, created |-> FALSE, cleared |-> FALSE,
                  prior |-> state.currentHighlight, loading |-> state.loading,
                  indexed |-> DOMAIN pageTextBoxes,
                  numPages |-> IF state.pdfDoc = null THEN -1
                               ELSE state.pdfDoc.numPages]
        found == findPhrase(referenceNumber, pageTextBoxes)
    IN  IF found = null
        THEN /\ lastClick' = click
             /\ UNCHANGED <<state, highlights>>
        ELSE LET made == createHighlight(found.page, found.rect,
                             [highlights |-> highlights, state |-> state],
                             pageContainers)
             IN  /\ lastClick' = [click EXCEPT !.found = found, !.created = made.ok]
                 /\ state' = made.state
                 /\ highlights' = made.highlights

\* handleReferenceClick(referenceNumber)
handleReferenceClick(referenceNumber) ==
    LET click == [referenceNumber |-> referenceNumber, searched |-> FALSE,
                  found |-> null, created |-> FALSE, cleared |-> FALSE,
                  prior |-> state.currentHighlight, loading |-> state.loading,
                  indexed |-> DOMAIN pageTextBoxes,
                  numPages |-> IF state.pdfDoc = null THEN -1
                               ELSE state.pdfDoc.numPages]
    IN  IF state.loading
        THEN /\ lastClick' = click
             /\ UNCHANGED <<state, highlights>>
        ELSE LET found == findPhrase(referenceNumber, pageTextBoxes)
             IN  IF found = null
                 THEN /\ lastClick' = [click EXCEPT !.searched = TRUE]
                      /\ UNCHANGED <<state, highlights>>
                 ELSE LET made == createHighlight(found.page, found.rect,
                                      [highlights |-> highlights, state |-> state],
                                      pageContainers)
                      IN  /\ lastClick' = [click EXCEPT !.searched = TRUE,
                                                        !.found = found,
                                                        !.created = made.ok]
                          /\ state' = made.state
                          /\ highlights' = made.highlights

\* A reference link is activated; the links are rendered unless the error
\* screen replaces the application.
ReferenceClick ==
    /\ state.error = NoError
    /\ \E referenceNumber \in ReferenceNumbers : handleReferenceClick(referenceNumber)
    /\ UNCHANGED <<pageTextBoxes, textContent, pageContainers, loader, scan>>

\* The Clear Highlights button, disabled while nothing is highlighted.
ClearClick ==
    /\ state.error = NoError
    /\ state.currentHighlight # null
    /\ LET dom == clearHighlights([highlights |-> highlights, state |-> state])
       IN  /\ highlights' = dom.highlights
           /\ state' = dom.state
    /\ lastClick' = [lastClick EXCEPT !.cleared = TRUE]
    /\ UNCHANGED <<pageTextBoxes, textContent, pageContainers, loader, scan>>

\* The Reload Page button of the error screen: the page starts afresh.
ReloadClick ==
    /\ state.error # NoError
    /\ state' = InitialState
    /\ pageTextBoxes' = <<>>
    /\ textContent' = <<>>
    /\ pageContainers' = <<>>
    /\ highlights' = <<>>
    /\ loader' = InitialLoader
    /\ lastClick' = NoClick
    /\ UNCHANGED scan

Next ==
    \/ ScriptLoaded
    \/ ScriptError
    \/ LoadStart
    \/ GetDocumentResolved
    \/ GetPageResolved
    \/ RenderResolved
    \/ GetTextContentResolved
    \/ AwaitRejected
    \/ ReferenceClick
    \/ ClearClick
    \/ ReloadClick

Spec == Init /\ [][Next]_vars

----------------------------------------------------------------------------
(* One call of findMatchingTextBoxes followed iteration by iteration, as   *)
(* findPhrase makes it: on a page with boxes, for a lowercased variation   *)
(* that occurs in the page text.                                           *)

\* The items the scanned page is made of.
ScanItems ==
    { Item(<<>>, 4, 3, 1, 0),
      Item(<<"a", "a", "a", "a", "a", "a", "a">>, 0, 5, 2, 7),
      Item(<<"a", "a", "a", "a", "a", "a", "a", "a">>, 1, 9, 3, 8),
      Item(<<"b">>, 6, 2, 2, 1),
      Item(<<"A", "b">>, 3, 8, 1, 2) }

\* The item sequences of 1 to MaxBoxes items.
ScanPages == UNION {[1..n -> ScanItems] : n \in 1..MaxBoxes}

\* The lowercased variations of the configuration.
NormalizedVariations ==
    UNION {{toLowerCase(SEARCH_PHRASES[r].variations[j]) :
               j \in DOMAIN SEARCH_PHRASES[r].variations} :
           r \in DOMAIN SEARCH_PHRASES}

ScanInit ==
    /\ AppInit
    /\ \E items \in ScanPages, searchText \in NormalizedVariations :
          LET boxes == extractTextContent(items, 1)
          IN  /\ indexOf(pageSearchString(boxes), searchText) # -1
              /\ scan = [ScanIdle EXCEPT !.pc = "loop", !.boxes = boxes,
                                         !.searchText = searchText]

\* One iteration of the loop; when it returns currentBoxes, findPhrase computes
\* the bounding rectangle of the run.
ScanIteration ==
    /\ scan.pc = "loop"
    /\ scan.i < Len(scan.boxes)
    /\ LET r == LoopBody(scan.boxes, scan.searchText, scan.i,
                         scan.currentText, scan.currentBoxes)
       IN  scan' = IF r.returned
                   THEN [scan EXCEPT !.pc = "returned",
                                     !.currentText = r.currentText,
                                     !.currentBoxes = r.currentBoxes,
                                     !.matchingBoxes = r.currentBoxes,
                                     !.rect = calculateBoundingRect(r.currentBoxes)]
                   ELSE [scan EXCEPT !.i = scan.i + 1,
                                     !.currentText = r.currentText,
                                     !.currentBoxes = r.currentBoxes]
    /\ UNCHANGED appVars

\* The loop ends without a match: the empty matchingBoxes is returned.
ScanExhausted ==
    /\ scan.pc = "loop"
    /\ scan.i >= Len(scan.boxes)
    /\ scan' = [scan EXCEPT !.pc = "exhausted", !.matchingBoxes = <<>>]
    /\ UNCHANGED appVars

ScanNext == ScanIteration \/ ScanExhausted

SpecScan == ScanInit /\ [][ScanNext]_vars

----------------------------------------------------------------------------
(* Vocabulary of the properties.                                           *)

\* The lowercased texts of the boxes, concatenated with nothing in between.
ConcatLower(boxes) ==
    toLowerCase(join([k \in 1..Len(boxes) |-> boxes[k].str], <<>>))

\* The last reference activation ran findPhrase for a configured reference.
Queried ==
    lastClick.searched /\ lastClick.referenceNumber \in DOMAIN SEARCH_PHRASES

QueriedConfig == SEARCH_PHRASES[lastClick.referenceNumber]

\* Page p is indexed with at least one box.
HasBoxes(p) == p \in DOMAIN pageTextBoxes /\ Len(pageTextBoxes[p]) > 0

\* The variation occurs in the space-joined page search string of the boxes.
Occurs(boxes, variation) ==
    \E k \in 0..(Len(pageSearchString(boxes)) - Len(variation)) :
        SubSeq(pageSearchString(boxes), k + 1, k + Len(variation))
            = toLowerCase(variation)

\* The variation occurs and its fragment-run resolution is not empty.
Usable(boxes, variation) ==
    /\ Occurs(boxes, variation)
    /\ findMatchingTextBoxes(boxes, toLowerCase(variation)) # <<>>

\* The positions of the usable variations of the queried reference on page p.
UsableOn(p) ==
    {j \in DOMAIN QueriedConfig.variations :
        Usable(pageTextBoxes[p], QueriedConfig.variations[j])}

----------------------------------------------------------------------------
(* C1 as stated: with a page hint, if the in-order concatenation of the    *)
(* fragment texts of the hinted page contains (case-insensitively) one of  *)
(* the variations, findPhrase returns a result on the hinted page.         *)
C1_ConcatenationFound ==
    (/\ Queried
     /\ QueriedConfig.pageHint # 0
     /\ HasBoxes(QueriedConfig.pageHint)
     /\ \E j \in DOMAIN QueriedConfig.variations :
           includes(ConcatLower(pageTextBoxes[QueriedConfig.pageHint]),
                    toLowerCase(QueriedConfig.variations[j])))
    => (lastClick.found # null /\ lastClick.found.page = QueriedConfig.pageHint)

\* Some single fragment of page p contains one of the queried variations,
\* case-insensitively.
FragmentContainsVariation(p) ==
    \E k \in 1..Len(pageTextBoxes[p]), j \in DOMAIN QueriedConfig.variations :
        includes(toLowerCase(pageTextBoxes[p][k].str),
                 toLowerCase(QueriedConfig.variations[j]))

(* C1 as amended: with a page hint, if the text of some single fragment of *)
(* the hinted page contains (case-insensitively) one of the variations,    *)
(* findPhrase returns a result whose page is the hint.                     *)
C1_FragmentFound ==
    (/\ Queried
     /\ QueriedConfig.pageHint # 0
     /\ HasBoxes(QueriedConfig.pageHint)
     /\ FragmentContainsVariation(QueriedConfig.pageHint))
    => (lastClick.found # null /\ lastClick.found.page = QueriedConfig.pageHint)

\* A query with a hint found a capitalised fragment text through a variation
\* written with a capital.
C1_Witness ==
    /\ Queried
    /\ lastClick.referenceNumber = 2
    /\ HasBoxes(3)
    /\ pageTextBoxes[3][1].str = <<"x", "A", "B">>
    /\ lastClick.found # null
    /\ lastClick.found.page = 3

----------------------------------------------------------------------------
(* C2: with a page hint only the hinted page is examined: the result is    *)
(* absent or on the hinted page, and it is absent when the hinted page is  *)
(* not indexed or has no fragments, whatever the other pages hold.         *)
C2_HintOnly ==
    (Queried /\ QueriedConfig.pageHint # 0)
    => /\ lastClick.found # null => lastClick.found.page = QueriedConfig.pageHint
       /\ ~HasBoxes(QueriedConfig.pageHint) => lastClick.found = null

\* A query whose hinted page has no boxes came back absent although another
\* indexed page holds a usable variation.
C2_Witness ==
    /\ Queried
    /\ QueriedConfig.pageHint # 0
    /\ ~HasBoxes(QueriedConfig.pageHint)
    /\ \E p \in DOMAIN pageTextBoxes : HasBoxes(p) /\ UsableOn(p) # {}
    /\ lastClick.found = null

----------------------------------------------------------------------------
(* C3: without a page hint the indexed pages are visited in ascending page *)
(* order and the first page with a usable match wins: the result is on the *)
(* lowest indexed page that has a usable variation, and absent when there  *)
(* is none.                                                                *)
C3_FirstPageWins ==
    (Queried /\ QueriedConfig.pageHint = 0)
    => LET matching == {p \in DOMAIN pageTextBoxes : HasBoxes(p) /\ UsableOn(p) # {}}
       IN  /\ lastClick.found = null <=> matching = {}
           /\ lastClick.found # null =>
                 /\ lastClick.found.page \in matching
                 /\ \A q \in matching : lastClick.found.page <= q

\* A query without a hint returned page 2 while page 3 matches too and page 1
\* has boxes but no usable variation.
C3_Witness ==
    /\ Queried
    /\ QueriedConfig.pageHint = 0
    /\ lastClick.found # null
    /\ lastClick.found.page = 2
    /\ HasBoxes(1)
    /\ HasBoxes(3)
    /\ UsableOn(3) # {}

----------------------------------------------------------------------------
(* C4: for a non-empty run calculateBoundingRect returns the min/max       *)
(* reduction: the rectangle encloses every fragment of the run, each of    *)
(* its four edges is touched by some fragment, and its width and height    *)
(* are not negative when those of the fragments are not.                   *)
C4_BoundingRect ==
    scan.pc = "returned" =>
        LET run == scan.matchingBoxes
            r   == scan.rect
        IN  /\ Len(run) > 0
            /\ \A k \in 1..Len(run) :
                  /\ r.left <= run[k].left
                  /\ r.top <= run[k].top
                  /\ run[k].left + run[k].width <= r.left + r.width
                  /\ run[k].top + run[k].height <= r.top + r.height
            /\ \E k \in 1..Len(run) : run[k].left = r.left
            /\ \E k \in 1..Len(run) : run[k].top = r.top
            /\ \E k \in 1..Len(run) : run[k].left + run[k].width = r.left + r.width
            /\ \E k \in 1..Len(run) : run[k].top + run[k].height = r.top + r.height
            /\ (\A k \in 1..Len(run) : run[k].width >= 0 /\ run[k].height >= 0)
                  => (r.width >= 0 /\ r.height >= 0)

\* A returned run of several fragments whose rectangle is that of none of them
\* and does not start at the origin.
C4_Witness ==
    /\ scan.pc = "returned"
    /\ Len(scan.matchingBoxes) >= 2
    /\ scan.rect.left > 0
    /\ scan.rect.top > 0
    /\ \A k \in 1..Len(scan.matchingBoxes) :
          scan.rect # [left   |-> scan.matchingBoxes[k].left,
                       top    |-> scan.matchingBoxes[k].top,
                       width  |-> scan.matchingBoxes[k].width,
                       height |-> scan.matchingBoxes[k].height]

----------------------------------------------------------------------------
(* C5: at most one highlight rectangle is drawn, currentHighlight is set   *)
(* exactly when one is drawn and names it, and right after createHighlight *)
(* for a found result that result is the one highlight, whatever was       *)
(* highlighted before.                                                     *)
C5_SingleHighlight ==
    /\ Len(highlights) <= 1
    /\ state.currentHighlight # null <=> Len(highlights) = 1
    /\ Len(highlights) = 1 => highlights[1] = state.currentHighlight
    /\ (lastClick.searched /\ lastClick.found # null /\ ~lastClick.cleared) =>
          /\ lastClick.created
          /\ highlights = << [pageNumber |-> lastClick.found.page,
                              rect |-> lastClick.found.rect] >>

\* createHighlight replaced another highlight.
C5_Witness ==
    /\ lastClick.created
    /\ ~lastClick.cleared
    /\ lastClick.prior # null
    /\ lastClick.prior # state.currentHighlight
    /\ Len(highlights) = 1

----------------------------------------------------------------------------
(* C6: no location query runs against a partially built index: findPhrase  *)
(* is executed only when loading is over and every page 1..numPages of the *)
(* document is indexed, and while the load is in progress or has failed no *)
(* query has run and nothing is highlighted.                               *)
C6_NoQueryWhileLoading ==
    /\ lastClick.searched =>
          /\ ~lastClick.loading
          /\ lastClick.numPages >= 0
          /\ \A p \in 1..lastClick.numPages : p \in lastClick.indexed
    /\ (state.loading \/ state.error # NoError) =>
          /\ ~lastClick.searched
          /\ state.currentHighlight = null
          /\ highlights = <<>>

\* A configured reference was activated while only part of the document was
\* indexed, and no search ran.
C6_Witness ==
    /\ lastClick.referenceNumber \in DOMAIN SEARCH_PHRASES
    /\ lastClick.loading
    /\ lastClick.indexed # {}
    /\ \E p \in 1..lastClick.numPages : p \notin lastClick.indexed
    /\ ~lastClick.searched
    /\ state.currentHighlight = null

----------------------------------------------------------------------------
(* C7: a reference activation whose number has no entry in the phrase      *)
(* configuration finds nothing and changes neither the page text index nor *)
(* the highlight.                                                          *)
C7_UnknownReference ==
    [][(/\ lastClick' # lastClick
        /\ ~lastClick'.cleared
        /\ lastClick'.referenceNumber \in ReferenceNumbers \ DOMAIN SEARCH_PHRASES)
       => (/\ lastClick'.found = null
           /\ ~lastClick'.created
           /\ UNCHANGED <<pageTextBoxes, textContent, state, highlights, pageContainers>>)]_vars

\* The unconfigured reference was searched for on a complete index that holds
\* text, while a highlight stays drawn.
C7_Witness ==
    /\ lastClick.referenceNumber \notin DOMAIN SEARCH_PHRASES
    /\ lastClick.searched
    /\ lastClick.found = null
    /\ \E p \in DOMAIN pageTextBoxes : HasBoxes(p)
    /\ state.currentHighlight # null

----------------------------------------------------------------------------
\* The positions of the queried variations that occur in the page search
\* string of page p.
OccurringOn(p) ==
    {j \in DOMAIN QueriedConfig.variations :
        Occurs(pageTextBoxes[p], QueriedConfig.variations[j])}

\* The least element of a non-empty set of integers.
Least(S) == CHOOSE x \in S : \A y \in S : x <= y

(* C8 as stated: on the hinted page, once the first variation that occurs  *)
(* in the page search string resolves to an empty run, no later variation  *)
(* is tried and the result is absent.                                      *)
C8_NoLaterVariation ==
    (/\ Queried
     /\ QueriedConfig.pageHint # 0
     /\ HasBoxes(QueriedConfig.pageHint)
     /\ OccurringOn(QueriedConfig.pageHint) # {}
     /\ Least(OccurringOn(QueriedConfig.pageHint))
           \notin UsableOn(QueriedConfig.pageHint))
    => lastClick.found = null

\* The candidate pages of the query that have a usable variation.
MatchingCandidates ==
    {p \in DOMAIN pageTextBoxes :
        /\ QueriedConfig.pageHint # 0 => p = QueriedConfig.pageHint
        /\ HasBoxes(p)
        /\ UsableOn(p) # {}}

(* C8 as amended: when a variation that occurs on a candidate page         *)
(* resolves to an empty run, the later variations are still tried on that  *)
(* page, in listed order; the result is the rectangle of the first usable  *)
(* variation of the first candidate page that has one, and it is absent    *)
(* only when no variation is usable on any candidate page.                 *)
C8_LaterVariationsTried ==
    Queried =>
        IF MatchingCandidates = {} THEN lastClick.found = null
        ELSE LET p == Least(MatchingCandidates)
                 j == Least(UsableOn(p))
             IN  lastClick.found =
                    [page |-> p,
                     rect |-> calculateBoundingRect(
                                 findMatchingTextBoxes(pageTextBoxes[p],
                                     toLowerCase(QueriedConfig.variations[j])))]

\* On the hinted page the first occurring variation resolved to an empty run
\* and a later variation gave the result.
C8_Witness ==
    /\ Queried
    /\ QueriedConfig.pageHint # 0
    /\ HasBoxes(QueriedConfig.pageHint)
    /\ OccurringOn(QueriedConfig.pageHint) # {}
    /\ Least(OccurringOn(QueriedConfig.pageHint)) \notin UsableOn(QueriedConfig.pageHint)
    /\ lastClick.found # null
    /\ lastClick.found.page = QueriedConfig.pageHint

----------------------------------------------------------------------------
(* C9: a non-empty run returned by findMatchingTextBoxes is a contiguous   *)
(* stretch of the page's fragments that ends at the fragment just added,   *)
(* and the lowercased concatenation of its texts contains the variation.   *)
C9_RunContainsVariation ==
    scan.pc = "returned" =>
        /\ Len(scan.matchingBoxes) > 0
        /\ \E first \in 1..(scan.i + 1) :
              scan.matchingBoxes = SubSeq(scan.boxes, first, scan.i + 1)
        /\ includes(ConcatLower(scan.matchingBoxes), scan.searchText)

----------------------------------------------------------------------------
(* C10: after every iteration of the loop of findMatchingTextBoxes the     *)
(* text buffer is the concatenation of the lowercased texts of exactly the *)
(* fragments in the window.                                                *)
C10_BufferIsWindow ==
    scan.pc \in {"loop", "returned"} =>
        scan.currentText = ConcatLower(scan.currentBoxes)

----------------------------------------------------------------------------
\* The length of the longest fragment text of the scanned page.
LongestFragment ==
    LET lens == {Len(scan.boxes[k].str) : k \in 1..Len(scan.boxes)}
    IN  CHOOSE n \in lens : \A m \in lens : m <= n

(* C11: the scan visits each fragment at most once, and at every point of  *)
(* it (after a fragment's text is appended, and after the window is        *)
(* shrunk) the buffer is no longer than three times the length of the      *)
(* variation plus the length of the longest fragment text of the page.     *)
C11_BufferBound ==
    scan.pc # "idle" =>
        LET bound == 3 * Len(scan.searchText) + LongestFragment
        IN  /\ scan.i <= Len(scan.boxes)
            /\ Len(scan.currentText) <= bound
            /\ (scan.pc = "loop" /\ scan.i < Len(scan.boxes)) =>
                  Len(scan.currentText) + Len(scan.boxes[scan.i + 1].str) <= bound

----------------------------------------------------------------------------
\* The indexed pages are exactly the pages 1..k.
IndexedUpTo(k) == DOMAIN pageTextBoxes = 1..k

(* C12: pages are indexed strictly one after the other: while page n is    *)
(* fetched, rendered or extracted, exactly the pages before it are indexed *)
(* and exactly the containers up to it exist; the indexed pages are always *)
(* a prefix 1..k of the document's pages (all of them once loading ends     *)
(* without an error); and every indexed page holds all the fragments the   *)
(* renderer emitted for it, and only those, in emission order.             *)
C12_SequentialIndexing ==
    /\ IndexedUpTo(Cardinality(DOMAIN pageTextBoxes))
    /\ Cardinality(DOMAIN pageTextBoxes) <= loader.numPages
    /\ loader.pc \in {"getPage", "render", "getTextContent"} =>
          /\ loader.pageNum \in 1..loader.numPages
          /\ IndexedUpTo(loader.pageNum - 1)
          /\ pageContainers =
                [k \in 1..(IF loader.pc = "getPage" THEN loader.pageNum - 1
                           ELSE loader.pageNum) |-> k]
    /\ loader.pc = "done" => IndexedUpTo(loader.numPages)
    /\ \A p \in DOMAIN pageTextBoxes :
          /\ p \in DOMAIN textContent
          /\ Len(pageTextBoxes[p]) = Len(textContent[p])
          /\ \A k \in 1..Len(pageTextBoxes[p]) :
                /\ pageTextBoxes[p][k].str = textContent[p][k].str
                /\ pageTextBoxes[p][k].left = textContent[p][k].x
                /\ pageTextBoxes[p][k].pageNumber = p

\* Page 2 is being extracted while page 1 is indexed with both its fragments
\* and page 3 has not begun.
C12_Witness ==
    /\ loader.pc = "getTextContent"
    /\ loader.pageNum = 2
    /\ loader.numPages >= 3
    /\ DOMAIN pageTextBoxes = {1}
    /\ Len(pageTextBoxes[1]) = 2
    /\ pageContainers = <<1, 2>>

====
